---------------------------- MODULE Spec2Model ----------------------------
(***************************************************************************)
(* clock_cli: the NTP client of src/main.rs.                               *)
(*                                                                         *)
(* The model covers the timestamp conversions (From<NTPTimeStamp> for      *)
(* DateTime<Utc> and back), one NTP exchange (NTPMessage::ntp_roundtrip),  *)
(* the batch over the server list and the aggregation                      *)
(* (NTPMessage::check_time, NTPMessage::weighted_mean), and the            *)
(* check-and-adjust cycle (match_check_ntp, Clock::set).                   *)
(*                                                                         *)
(* Number representation.  TLC integers are 32 bits wide, the program's    *)
(* seconds are u32/i64 values up to 2^32.  A wide integer is the record    *)
(* [hi, lo] that stands for hi * 2^16 + lo with lo in 0..2^16-1; hi is     *)
(* signed.  f64 values are exact rationals n/d, or one of inf, nan.        *)
(***************************************************************************)
EXTENDS Integers, Sequences, FiniteSets, TLC

VARIABLES
    pc,             \* position of the run inside main / check_time / ntp_roundtrip
    clock,          \* the local system clock read by Utc::now()
    idx,            \* index into `servers` of the server the loop is at
    queried,        \* the servers ntp_roundtrip was called for, in call order
    request,        \* the datagram handed to udp.send in the current exchange
    send_ok,        \* whether udp.send of the current exchange succeeded
    response,       \* response.data of the current exchange
    recvd,          \* per queried server: the number of bytes recv_from delivered
    t1,             \* local variable t1 of ntp_roundtrip
    t4,             \* local variable t4 of ntp_roundtrip
    times,          \* Vec<NTPResult> of check_time
    offsets,        \* Vec<f64> of check_time
    offset_weights, \* Vec<f64> of check_time
    avg_offset,     \* the f64 check_time returns
    adjust_ms,      \* adjust_ms_ of match_check_ntp
    now,            \* the value Utc::now() returned in match_check_ntp
    set_arg,        \* the instant handed to Clock::set
    tv,             \* the timeval Clock::set passes to settimeofday
    codec           \* the conversions' input and results (codec specification)

vars == <<pc, clock, idx, queried, request, send_ok, response, recvd, t1, t4, times,
          offsets, offset_weights, avg_offset, adjust_ms, now, set_arg, tv,
          codec>>

-----------------------------------------------------------------------------
(* Wide integers: hi * 2^16 + lo.                                          *)

W16 == 2^16

Wide(h, l) == [hi |-> h, lo |-> l]

WNorm(h, l) == [hi |-> h + (l \div W16), lo |-> l % W16]

WAdd(a, b) == WNorm(a.hi + b.hi, a.lo + b.lo)

WSub(a, b) == WNorm(a.hi - b.hi, a.lo - b.lo)

WLe(a, b) == a.hi < b.hi \/ (a.hi = b.hi /\ a.lo <= b.lo)

\* The value of a wide integer small enough for a plain integer.
WInt(a) == a.hi * W16 + a.lo

\* `x as u32` on an i64: the value modulo 2^32.
AsU32(a) == [hi |-> a.hi % W16, lo |-> a.lo]

Abs(x) == IF x < 0 THEN -x ELSE x

Min(a, b) == IF a <= b THEN a ELSE b

Signum(x) == IF x > 0 THEN 1 ELSE IF x < 0 THEN -1 ELSE 0

\* Rust's integer division: the quotient truncated toward zero.
TruncDiv(a, b) == Signum(a) * Signum(b) * (Abs(a) \div Abs(b))

RECURSIVE GCD(_, _)
GCD(a, b) == IF b = 0 THEN a ELSE GCD(b, a % b)

-----------------------------------------------------------------------------
(* Program constants.                                                      *)

NTP_MESSAGE_LENGTH == 48

\* 2_208_988_800 = 33706 * 2^16 + 32384
NTP_TD_UNIX_SECONDS == Wide(33706, 32384)

NANOS_PER_SEC == 10^9

NANOS_PER_MILLI == 10^6

\* 1e9 / 2^32 = 5^9 / 2^23
FIVE9 == 5^9

TWO23 == 2^23

-----------------------------------------------------------------------------
(* Timestamp conversions.                                                  *)
(*                                                                         *)
(* NTPTimeStamp is [seconds, fraction], both wide integers in 0..2^32-1.   *)
(* DateTime<Utc> is [secs, nanos]: secs the Unix timestamp (wide), nanos   *)
(* in 0..10^9-1.                                                           *)

\* (q + r / 2^23) * 5^n as [q, r], r in 0..2^23-1
RECURSIVE Times5(_, _, _)
Times5(q, r, n) ==
    IF n = 0 THEN [q |-> q, r |-> r]
    ELSE Times5(5 * q + ((5 * r) \div TWO23), (5 * r) % TWO23, n - 1)

\* fraction * 1e9 / 2^32 as [q, r]: the whole part q and the rest r / 2^23.
\* fraction * 1e9 = fraction * 5^9 * 2^9 with fraction * 5^9 < 2^53, so the
\* f64 product and the division by 2^32 of lines 55-57 are exact.
FractionTimes1e9Over2p32(f) ==
    LET a == f.hi \div 128
        b == (f.hi % 128) * W16 + f.lo
        p == Times5(0, b, 9)
    IN  [q |-> a * FIVE9 + p.q, r |-> p.r]

\* (q + r / 5^9) * 2^n as [q, r], q wide, r in 0..5^9-1
RECURSIVE Times2(_, _, _)
Times2(q, r, n) ==
    IF n = 0 THEN [q |-> q, r |-> r]
    ELSE Times2(WNorm(2 * q.hi, 2 * q.lo + ((2 * r) \div FIVE9)),
                (2 * r) % FIVE9, n - 1)

\* nanos * 2^32 / 1e9 as [q, r]: the whole part q (wide) and the rest r / 5^9.
\* The f64 quotient of line 69 is the exact quotient rounded by at most
\* 2^-22, and a quotient that is no integer is at least 5^-9 > 2^-22 away
\* from one, so the cast of line 73 truncates the exact quotient.
NanosTimes2p32Over1e9(ns) ==
    Times2(Wide(0, ns \div FIVE9), ns % FIVE9, 23)

\* impl From<NTPTimeStamp> for DateTime<Utc>
NtpToUtc(ntp) ==
    LET secs  == WSub(ntp.seconds, NTP_TD_UNIX_SECONDS)
        nanos == FractionTimes1e9Over2p32(ntp.fraction).q
    IN  [secs |-> secs, nanos |-> nanos]

\* impl From<DateTime<Utc>> for NTPTimeStamp
UtcToNtp(utc) ==
    LET secs     == WAdd(utc.secs, NTP_TD_UNIX_SECONDS)
        fraction == NanosTimes2p32Over1e9(utc.nanos).q
    IN  [seconds |-> AsU32(secs), fraction |-> AsU32(fraction)]


-----------------------------------------------------------------------------
(* chrono::Duration is [secs, nanos] with nanos in 0..10^9-1 (the library's *)
(* normal form); secs is a plain integer: the model's durations are short. *)

DurNorm(s, n) == [secs |-> s + (n \div NANOS_PER_SEC), nanos |-> n % NANOS_PER_SEC]

\* DateTime - DateTime (signed_duration_since)
InstantSub(a, b) == DurNorm(WInt(WSub(a.secs, b.secs)), a.nanos - b.nanos)

\* Duration - Duration
DurSub(x, y) == DurNorm(x.secs - y.secs, x.nanos - y.nanos)

\* Duration::num_milliseconds: whole milliseconds, truncated toward zero
NumMilliseconds(d) ==
    LET neg == d.secs < 0 /\ d.nanos > 0
        s   == IF neg THEN d.secs + 1 ELSE d.secs
        n   == IF neg THEN d.nanos - NANOS_PER_SEC ELSE d.nanos
    IN  s * 1000 + TruncDiv(n, NANOS_PER_MILLI)

\* DateTime + Duration::milliseconds(ms)
InstantAddMillis(t, ms) ==
    LET n == t.nanos + (ms % 1000) * NANOS_PER_MILLI
        s == (ms \div 1000) + (n \div NANOS_PER_SEC)
    IN  [secs |-> WNorm(t.secs.hi, t.secs.lo + s), nanos |-> n % NANOS_PER_SEC]

\* a <= b on instants
InstantLe(a, b) ==
    IF a.secs = b.secs THEN a.nanos <= b.nanos ELSE WLe(a.secs, b.secs)

-----------------------------------------------------------------------------
(* NTPResult is [t1, t2, t3, t4].                                          *)

DurAdd(x, y) == DurNorm(x.secs + y.secs, x.nanos + y.nanos)

\* delay with the server's processing time added instead of subtracted
delay_Added(r) == NumMilliseconds(DurAdd(InstantSub(r.t4, r.t1), InstantSub(r.t3, r.t2)))

\* NTPResult::delay
delay(r) == NumMilliseconds(DurSub(InstantSub(r.t4, r.t1), InstantSub(r.t3, r.t2)))

\* offset without the abs()
offset_NoAbs(r) == LET delta == delay(r) IN TruncDiv(delta, 2)

\* NTPResult::offset
offset(r) == LET delta == delay(r) IN TruncDiv(Abs(delta), 2)

-----------------------------------------------------------------------------
(* f64 values: [k |-> "fin", n, d] is the rational n / d in lowest terms   *)
(* with d > 0, [k |-> "inf", s] is s * infinity, [k |-> "nan"] is NaN.     *)
(* Finite arithmetic is exact; the rounding of the f64 operations is not   *)
(* modelled.                                                               *)

Fin(n, d) ==
    LET g == GCD(Abs(n), d)
    IN  [k |-> "fin", n |-> n \div g, d |-> d \div g]

Inf(s) == [k |-> "inf", s |-> s]

NaN == [k |-> "nan"]

FromInt(i) == Fin(i, 1)

FSign(a) == IF a.k = "inf" THEN a.s ELSE Signum(a.n)

FMul(a, b) ==
    IF a.k = "nan" \/ b.k = "nan" THEN NaN
    ELSE IF a.k = "fin" /\ b.k = "fin" THEN Fin(a.n * b.n, a.d * b.d)
    ELSE IF FSign(a) * FSign(b) = 0 THEN NaN
    ELSE Inf(FSign(a) * FSign(b))

FAdd(a, b) ==
    IF a.k = "nan" \/ b.k = "nan" THEN NaN
    ELSE IF a.k = "fin" /\ b.k = "fin" THEN Fin(a.n * b.d + b.n * a.d, a.d * b.d)
    ELSE IF a.k = "inf" /\ b.k = "inf" THEN (IF a.s = b.s THEN a ELSE NaN)
    ELSE IF a.k = "inf" THEN a ELSE b

\* a / b; a zero divisor is +0.0 (a square or a sum that starts at 0.0)
FDiv(a, b) ==
    IF a.k = "nan" \/ b.k = "nan" THEN NaN
    ELSE IF a.k = "inf" /\ b.k = "inf" THEN NaN
    ELSE IF a.k = "inf" THEN (IF FSign(b) < 0 THEN Inf(-a.s) ELSE a)
    ELSE IF b.k = "inf" THEN FromInt(0)
    ELSE IF b.n = 0 THEN (IF a.n = 0 THEN NaN ELSE Inf(Signum(a.n)))
    ELSE Fin(a.n * b.d * Signum(b.n), a.d * Abs(b.n))

\* f64::is_finite
IsFinite(a) == a.k = "fin"

\* isize::MAX stands as the largest model integer; only min(200) of it is used
ISIZE_MAX == 2^31 - 1

\* `x as isize` on an f64: truncates toward zero, NaN gives 0, saturates
CastIsize(a) ==
    IF a.k = "nan" THEN 0
    ELSE IF a.k = "inf" THEN a.s * ISIZE_MAX
    ELSE TruncDiv(a.n, a.d)

-----------------------------------------------------------------------------
(* NTPMessage: data is a sequence of NTP_MESSAGE_LENGTH bytes; byte i of   *)
(* the program is element i + 1.                                           *)

\* bitwise or of two bytes
RECURSIVE BitOr(_, _)
BitOr(a, b) ==
    IF a = 0 THEN b
    ELSE IF b = 0 THEN a
    ELSE 2 * BitOr(a \div 2, b \div 2) + (IF a % 2 = 1 \/ b % 2 = 1 THEN 1 ELSE 0)

\* NTPMessage::new
new == [i \in 1..NTP_MESSAGE_LENGTH |-> 0]

\* 0b00_011_000
VERSION == 24

\* 0b00_000_011
MODE == 3

\* NTPMessage::client
client ==
    LET msg  == new
        msg1 == [msg EXCEPT ![1] = BitOr(msg[1], VERSION)]
    IN  [msg1 EXCEPT ![1] = BitOr(msg1[1], MODE)]

\* read_u32::<BigEndian> on data[i..i+4]
ReadU32BE(data, i) ==
    Wide(data[i + 1] * 256 + data[i + 2], data[i + 3] * 256 + data[i + 4])

\* NTPMessage::parse_timestamp
parse_timestamp(data, i) ==
    [seconds |-> ReadU32BE(data, i), fraction |-> ReadU32BE(data, i + 4)]

\* NTPMessage::rx_time
rx_time(data) == parse_timestamp(data, 32)

\* NTPMessage::tx_time
tx_time(data) == parse_timestamp(data, 40)

\* NTPMessage::weighted_mean: the loop over values.iter().zip(weights)
RECURSIVE WeightedSums(_, _, _, _, _)
WeightedSums(values, weights, k, result, sum_of_weights) ==
    IF k > Len(values) \/ k > Len(weights)
    THEN [result |-> result, sum_of_weights |-> sum_of_weights]
    ELSE WeightedSums(values, weights, k + 1,
                      FAdd(result, FMul(values[k], weights[k])),
                      FAdd(sum_of_weights, weights[k]))

\* NTPMessage::weighted_mean
weighted_mean(values, weights) ==
    LET s == WeightedSums(values, weights, 1, FromInt(0), FromInt(0))
    IN  FDiv(s.result, s.sum_of_weights)

\* check_time, line 201: the weight of one sample
Weight(time) ==
    LET d == FromInt(delay(time))
    IN  FDiv(FromInt(1000000), FMul(d, d))

\* the loop without the is_finite test
RECURSIVE CollectWeights_NoFilter(_, _, _, _)
CollectWeights_NoFilter(ts, k, offs, wts) ==
    IF k > Len(ts) THEN [offsets |-> offs, offset_weights |-> wts]
    ELSE CollectWeights_NoFilter(ts, k + 1, Append(offs, FromInt(offset(ts[k]))),
                                 Append(wts, Weight(ts[k])))

\* check_time, lines 197-207: the loop that fills offsets and offset_weights
RECURSIVE CollectWeights(_, _, _, _)
CollectWeights(ts, k, offs, wts) ==
    IF k > Len(ts) THEN [offsets |-> offs, offset_weights |-> wts]
    ELSE LET off    == FromInt(offset(ts[k]))
             weight == Weight(ts[k])
         IN  IF IsFinite(weight)
             THEN CollectWeights(ts, k + 1, Append(offs, off), Append(wts, weight))
             ELSE CollectWeights(ts, k + 1, offs, wts)

\* the adjustment without the cap of 200 ms
AdjustMs_NoCap(off) == TruncDiv(Signum(off) * Abs(off), 5)

\* match_check_ntp, line 460
AdjustMs(off) == TruncDiv(Signum(off) * Min(Abs(off), 200), 5)

\* Clock::set (not windows), lines 283-284: the timeval handed to settimeofday
Timeval(t) == [tv_sec |-> t.secs, tv_usec |-> t.nanos \div 1000]


-----------------------------------------------------------------------------
(* The check-and-adjust run: main with the action check-ntp.               *)

\* check_time, lines 167-174
servers == <<"time.nist.gov", "time.apple.com", "time.euro.apple.com",
             "time.google.com", "time2.google.com">>

\* ntp_roundtrip, line 129: the read timeout, in nanoseconds
timeout == NANOS_PER_SEC

\* The local clock when the run starts: 2023-11-14T22:13:20Z less 300 ns
\* (1_699_999_999 = 25939 * 2^16 + 61695).
StartClock == [secs |-> Wide(25939, 61695), nanos |-> 999999700]

\* The clock after ns more nanoseconds (ns at most 10^9).
ClockAfter(c, ns) ==
    LET n == c.nanos + ns
    IN  [secs |-> WNorm(c.secs.hi, c.secs.lo + (n \div NANOS_PER_SEC)),
         nanos |-> n % NANOS_PER_SEC]

\* The server's clock: NTP seconds of 2023-11-14T22:13:20Z
\* (3_908_988_800 = 59646 * 2^16 + 28544).
ServerSeconds == Wide(59646, 28544)

\* 0.05 * 2^32 rounded up: 50 ms as an NTP fraction
Fraction50ms == Wide(3276, 52429)

\* A server's reply datagram: byte 0 is version 3, mode 4 (server); the
\* receive timestamp is at bytes 32..39, the transmit timestamp at 40..47.
U32Bytes(w) == <<w.hi \div 256, w.hi % 256, w.lo \div 256, w.lo % 256>>

ServerReply(rx, tx) ==
    [i \in 1..NTP_MESSAGE_LENGTH |->
        IF i = 1 THEN 28
        ELSE IF i \in 33..36 THEN U32Bytes(rx.seconds)[i - 32]
        ELSE IF i \in 37..40 THEN U32Bytes(rx.fraction)[i - 36]
        ELSE IF i \in 41..44 THEN U32Bytes(tx.seconds)[i - 40]
        ELSE IF i \in 45..48 THEN U32Bytes(tx.fraction)[i - 44]
        ELSE 0]

Stamp0 == [seconds |-> ServerSeconds, fraction |-> Wide(0, 0)]

Stamp50 == [seconds |-> ServerSeconds, fraction |-> Fraction50ms]

\* What recv_from can deliver: the time the reply took (ns), the datagram and
\* its length.  A 10-byte datagram is a malformed reply.
Replies ==
    { [elapsed |-> 400000,   data |-> ServerReply(Stamp0, Stamp0),  len |-> NTP_MESSAGE_LENGTH],
      [elapsed |-> 4000000,  data |-> ServerReply(Stamp0, Stamp0),  len |-> NTP_MESSAGE_LENGTH],
      [elapsed |-> 20000000, data |-> ServerReply(Stamp0, Stamp0),  len |-> NTP_MESSAGE_LENGTH],
      [elapsed |-> 40000000, data |-> ServerReply(Stamp0, Stamp0),  len |-> NTP_MESSAGE_LENGTH],
      [elapsed |-> 20000000, data |-> ServerReply(Stamp0, Stamp50), len |-> NTP_MESSAGE_LENGTH],
      [elapsed |-> 20000000, data |-> ServerReply(Stamp0, Stamp50), len |-> 10] }

NoInstant == [secs |-> Wide(0, 0), nanos |-> 0]

Init ==
    /\ pc = "loop"
    /\ clock = StartClock
    /\ idx = 1
    /\ queried = <<>>
    /\ request = <<>>
    /\ send_ok = FALSE
    /\ response = new
    /\ recvd = <<>>
    /\ t1 = NoInstant
    /\ t4 = NoInstant
    /\ times = <<>>
    /\ offsets = <<>>
    /\ offset_weights = <<>>
    /\ avg_offset = NaN
    /\ adjust_ms = 0
    /\ now = NoInstant
    /\ set_arg = NoInstant
    /\ tv = Timeval(NoInstant)
    /\ codec = <<>>

\* check_time, lines 178-181, and ntp_roundtrip, lines 128-134: the loop
\* takes the next server and ntp_roundtrip builds its two messages
NextServer ==
    /\ pc = "loop"
    /\ idx <= Len(servers)
    /\ queried' = Append(queried, servers[idx])
    /\ request' = <<>>
    /\ send_ok' = FALSE
    /\ response' = new
    /\ pc' = "bind"
    /\ UNCHANGED <<clock, idx, recvd, t1, t4, times, offsets, offset_weights,
                   avg_offset, adjust_ms, now, set_arg, tv, codec>>

\* ntp_roundtrip, lines 136-141: UdpSocket::bind; Err runs unimplemented!()
Bind ==
    /\ pc = "bind"
    /\ \E ok \in BOOLEAN : pc' = IF ok THEN "connect" ELSE "panicked"
    /\ UNCHANGED <<clock, idx, queried, request, send_ok, response, recvd, t1,
                   t4, times, offsets, offset_weights, avg_offset, adjust_ms,
                   now, set_arg, tv, codec>>

\* ntp_roundtrip, line 143: udp.connect(..).expect(..)
Connect ==
    /\ pc = "connect"
    /\ \E ok \in BOOLEAN : pc' = IF ok THEN "t1" ELSE "panicked"
    /\ UNCHANGED <<clock, idx, queried, request, send_ok, response, recvd, t1,
                   t4, times, offsets, offset_weights, avg_offset, adjust_ms,
                   now, set_arg, tv, codec>>

\* ntp_roundtrip, line 145
StampT1 ==
    /\ pc = "t1"
    /\ t1' = clock
    /\ pc' = "send"
    /\ UNCHANGED <<clock, idx, queried, request, send_ok, response, recvd, t4,
                   times, offsets, offset_weights, avg_offset, adjust_ms, now,
                   set_arg, tv, codec>>

\* ntp_roundtrip, line 147: the result of udp.send is dropped
Send ==
    /\ pc = "send"
    /\ request' = client
    /\ \E ok \in BOOLEAN : send_ok' = ok
    /\ pc' = "set_read_timeout"
    /\ UNCHANGED <<clock, idx, queried, response, recvd, t1, t4, times, offsets,
                   offset_weights, avg_offset, adjust_ms, now, set_arg, tv,
                   codec>>

\* ntp_roundtrip, line 148
SetReadTimeout ==
    /\ pc = "set_read_timeout"
    /\ pc' = "recv"
    /\ UNCHANGED <<clock, idx, queried, request, send_ok, response, recvd, t1,
                   t4, times, offsets, offset_weights, avg_offset, adjust_ms,
                   now, set_arg, tv, codec>>

\* ntp_roundtrip, line 149: recv_from delivers a datagram, cut to the buffer;
\* the bytes past its length keep their value
RecvReply ==
    /\ pc = "recv"
    /\ send_ok
    /\ \E r \in Replies :
          /\ clock' = ClockAfter(clock, r.elapsed)
          /\ response' = [i \in 1..NTP_MESSAGE_LENGTH |->
                            IF i <= r.len THEN r.data[i] ELSE response[i]]
          /\ recvd' = Append(recvd, r.len)
    /\ pc' = "t4"
    /\ UNCHANGED <<idx, queried, request, send_ok, t1, t4, times, offsets,
                   offset_weights, avg_offset, adjust_ms, now, set_arg, tv,
                   codec>>

\* ntp_roundtrip, line 149: recv_from returns Err after the read timeout;
\* the result is dropped and the buffer keeps its zeros
RecvTimeout ==
    /\ pc = "recv"
    /\ clock' = ClockAfter(clock, timeout)
    /\ recvd' = Append(recvd, 0)
    /\ pc' = "t4"
    /\ UNCHANGED <<idx, queried, request, send_ok, response, t1, t4, times,
                   offsets, offset_weights, avg_offset, adjust_ms, now, set_arg,
                   tv, codec>>

\* ntp_roundtrip, line 150
StampT4 ==
    /\ pc = "t4"
    /\ t4' = clock
    /\ pc' = "decode"
    /\ UNCHANGED <<clock, idx, queried, request, send_ok, response, recvd, t1,
                   times, offsets, offset_weights, avg_offset, adjust_ms, now,
                   set_arg, tv, codec>>

\* the result with the two local instants swapped
RoundtripResult_Swapped(data, s, r) ==
    [t1 |-> r, t2 |-> NtpToUtc(rx_time(data)), t3 |-> NtpToUtc(tx_time(data)),
     t4 |-> s]

\* ntp_roundtrip, lines 152-161: the NTPResult it returns
RoundtripResult(data, s, r) ==
    [t1 |-> s, t2 |-> NtpToUtc(rx_time(data)), t3 |-> NtpToUtc(tx_time(data)),
     t4 |-> r]

\* ntp_roundtrip, lines 152-161, and check_time, lines 183-192: the result
\* is Ok and check_time pushes it.  The buffer always holds 48 bytes, so
\* rx_time and tx_time never fail; ntp_roundtrip has no path that returns
\* Err, and the Err arm of check_time (lines 188-190) is never taken.
Decode ==
    /\ pc = "decode"
    /\ times' = Append(times, RoundtripResult(response, t1, t4))
    /\ idx' = idx + 1
    /\ pc' = "loop"
    /\ UNCHANGED <<clock, queried, request, send_ok, response, recvd, t1, t4,
                   offsets, offset_weights, avg_offset, adjust_ms, now, set_arg,
                   tv, codec>>

\* check_time, lines 194-210
Aggregate ==
    /\ pc = "loop"
    /\ idx > Len(servers)
    /\ LET c == CollectWeights(times, 1, <<>>, <<>>)
       IN  /\ offsets' = c.offsets
           /\ offset_weights' = c.offset_weights
           /\ avg_offset' = weighted_mean(c.offsets, c.offset_weights)
    /\ pc' = "adjust"
    /\ UNCHANGED <<clock, idx, queried, request, send_ok, response, recvd, t1,
                   t4, times, adjust_ms, now, set_arg, tv, codec>>

\* match_check_ntp, lines 458-463
Adjust ==
    /\ pc = "adjust"
    /\ adjust_ms' = AdjustMs(CastIsize(avg_offset))
    /\ now' = clock
    /\ set_arg' = InstantAddMillis(clock, AdjustMs(CastIsize(avg_offset)))
    /\ pc' = "set"
    /\ UNCHANGED <<clock, idx, queried, request, send_ok, response, recvd, t1,
                   t4, times, offsets, offset_weights, avg_offset, tv, codec>>

\* match_check_ntp, line 465, and Clock::set, lines 272-290
ClockSet ==
    /\ pc = "set"
    /\ tv' = Timeval(set_arg)
    /\ pc' = "done"
    /\ UNCHANGED <<clock, idx, queried, request, send_ok, response, recvd, t1,
                   t4, times, offsets, offset_weights, avg_offset, adjust_ms,
                   now, set_arg, codec>>

Next ==
    \/ NextServer
    \/ Bind
    \/ Connect
    \/ StampT1
    \/ Send
    \/ SetReadTimeout
    \/ RecvReply
    \/ RecvTimeout
    \/ StampT4
    \/ Decode
    \/ Aggregate
    \/ Adjust
    \/ ClockSet

Spec == Init /\ [][Next]_vars


-----------------------------------------------------------------------------
(* The adjustment alone: match_check_ntp from line 458 on, for any value   *)
(* check_time may return, negative and fractional ones included.           *)

MaxAggregate == 450

\* Halves of milliseconds in -MaxAggregate..MaxAggregate, and NaN
Aggregates == { Fin(n, 2) : n \in (-2 * MaxAggregate)..(2 * MaxAggregate) } \cup {NaN}

InitAdjust ==
    /\ pc = "adjust"
    /\ clock = StartClock
    /\ idx = Len(servers) + 1
    /\ queried = servers
    /\ request = <<>>
    /\ send_ok = FALSE
    /\ response = new
    /\ recvd = <<>>
    /\ t1 = NoInstant
    /\ t4 = NoInstant
    /\ times = <<>>
    /\ offsets = <<>>
    /\ offset_weights = <<>>
    /\ avg_offset \in Aggregates
    /\ adjust_ms = 0
    /\ now = NoInstant
    /\ set_arg = NoInstant
    /\ tv = Timeval(NoInstant)
    /\ codec = <<>>

NextAdjust ==
    \/ Adjust
    \/ ClockSet

SpecAdjust == InitAdjust /\ [][NextAdjust]_vars

-----------------------------------------------------------------------------
(* The conversions alone.  codec.stage is "utc" (an instant to convert),   *)
(* "encoded" (its NTPTimeStamp), "roundtrip" (that converted back), "ntp"  *)
(* (a timestamp to convert) or "decoded" (its instant).                    *)

MaxNanos == 12

MaxFraction == 12

\* Unix seconds: 1900-01-01 (-2_208_988_800), 1970-01-01, 2023-11-14 and
\* 2036-02-07T06:28:15 (2_085_978_495), the two ends of the NTP range included
CodecSeconds == { Wide(-33707, 33152), Wide(0, 0), Wide(25939, 61696),
                  Wide(31829, 33151) }

CodecNanos == (0..MaxNanos) \cup { 499999999, 500000000, 999999999 - MaxNanos, 999999999 }

CodecInstants == { [secs |-> s, nanos |-> n] : s \in CodecSeconds, n \in CodecNanos }

\* NTP seconds: 0, 2_208_988_800 + 1_000_000_000 and 2^32 - 1
StampSeconds == { Wide(0, 0), Wide(48965, 18560), Wide(65535, 65535) }

StampFractions == { Wide(0, f) : f \in 0..MaxFraction }
                    \cup { Wide(32768, 0), Wide(65535, 65535 - MaxFraction), Wide(65535, 65535) }

CodecStamps == { [seconds |-> s, fraction |-> f] : s \in StampSeconds, f \in StampFractions }

InitCodec ==
    /\ pc = "codec"
    /\ clock = StartClock
    /\ idx = 1
    /\ queried = <<>>
    /\ request = <<>>
    /\ send_ok = FALSE
    /\ response = new
    /\ recvd = <<>>
    /\ t1 = NoInstant
    /\ t4 = NoInstant
    /\ times = <<>>
    /\ offsets = <<>>
    /\ offset_weights = <<>>
    /\ avg_offset = NaN
    /\ adjust_ms = 0
    /\ now = NoInstant
    /\ set_arg = NoInstant
    /\ tv = Timeval(NoInstant)
    /\ codec \in { [stage |-> "utc", utc |-> t] : t \in CodecInstants }
                   \cup { [stage |-> "ntp", ntp |-> n] : n \in CodecStamps }

codec_others == <<pc, clock, idx, queried, request, send_ok, response, recvd,
                  t1, t4, times, offsets, offset_weights, avg_offset,
                  adjust_ms, now, set_arg, tv>>

\* NTPTimeStamp::from(utc)
Encode ==
    /\ pc = "codec"
    /\ codec.stage = "utc"
    /\ codec' = [stage |-> "encoded", utc |-> codec.utc, ntp |-> UtcToNtp(codec.utc)]
    /\ UNCHANGED codec_others

\* DateTime::<Utc>::from(ntp) on the timestamp Encode made
DecodeEncoded ==
    /\ pc = "codec"
    /\ codec.stage = "encoded"
    /\ codec' = [stage |-> "roundtrip", utc |-> codec.utc, ntp |-> codec.ntp,
                 back |-> NtpToUtc(codec.ntp)]
    /\ UNCHANGED codec_others

\* DateTime::<Utc>::from(ntp)
DecodeStamp ==
    /\ pc = "codec"
    /\ codec.stage = "ntp"
    /\ codec' = [stage |-> "decoded", ntp |-> codec.ntp, utc |-> NtpToUtc(codec.ntp)]
    /\ UNCHANGED codec_others

NextCodec ==
    \/ Encode
    \/ DecodeEncoded
    \/ DecodeStamp

SpecCodec == InitCodec /\ [][NextCodec]_vars


-----------------------------------------------------------------------------
(* Properties.                                                             *)

Aggregated == pc \in {"adjust", "set", "done"}

\* the whole nanoseconds of a - b, for instants less than two seconds apart
NanosBetween(a, b) == WInt(WSub(a.secs, b.secs)) * NANOS_PER_SEC + (a.nanos - b.nanos)

\* x / y truncated toward zero, y > 0
Trunc(x, y) == IF x >= 0 THEN x \div y ELSE -((-x) \div y)

\* the servers whose exchange received a complete reply
CompleteReplies == { k \in 1..Len(recvd) : recvd[k] = NTP_MESSAGE_LENGTH }

\* C1: a run that ends has queried every configured server once, in the list
\* order, and has reached the aggregation: no failure of bind, connect or
\* send ends the run before that.
C1_NetworkFailureSkipsOneServer ==
    /\ pc # "panicked"
    /\ Aggregated => queried = servers

\* C2: only the servers whose exchange received a complete 48-byte reply
\* have a sample in times, and when exactly one server did, the aggregate is
\* that server's offset.
C2_OnlyCompleteRepliesContribute ==
    /\ pc = "loop" => Len(times) = Cardinality(CompleteReplies)
    /\ \A k \in 1..Len(servers) :
          (Aggregated /\ CompleteReplies = {k} /\ delay(times[k]) # 0)
             => avg_offset = FromInt(offset(times[k]))

\* C3: when the aggregate is NaN, no time is handed to Clock::set.
C3_NaNIsNoEstimate == ~(pc \in {"set", "done"} /\ avg_offset = NaN)

\* C4: the lists handed to weighted_mean hold exactly the samples whose delay
\* is not 0, in order, and the aggregate is the weighted mean of those: the
\* zero-delay samples change nothing.
NonZeroDelay(r) == delay(r) # 0

C4_ZeroDelayExcluded ==
    Aggregated =>
        LET kept == SelectSeq(times, NonZeroDelay)
            offs == [k \in 1..Len(kept) |-> FromInt(offset(kept[k]))]
            wts  == [k \in 1..Len(kept) |->
                        Fin(1000000, delay(kept[k]) * delay(kept[k]))]
        IN  /\ offsets = offs
            /\ offset_weights = wts
            /\ avg_offset = weighted_mean(offs, wts)

\* C4 witness: an aggregation over a zero-delay sample and a non-zero one
C4_Witness ==
    /\ pc = "done"
    /\ \E j, k \in 1..Len(times) : delay(times[j]) = 0 /\ delay(times[k]) # 0

\* C5: the correction is sign(offset) * min(|offset|, 200) / 5 of the
\* aggregate offset in whole milliseconds, at most 40 ms either way, and
\* the instant handed to Clock::set is the time read plus that correction.
C5_CappedAdjustment ==
    pc \in {"set", "done"} =>
        LET off == IF avg_offset.k = "fin" THEN Trunc(avg_offset.n, avg_offset.d) ELSE 0
            expected == IF off >= 0 THEN Min(off, 200) \div 5
                        ELSE -(Min(-off, 200) \div 5)
        IN  /\ adjust_ms = expected
            /\ adjust_ms \in -40..40
            /\ NanosBetween(set_arg, now) = adjust_ms * NANOS_PER_MILLI

\* C5 witness: an offset beyond the cap, on either side
C5_Witness ==
    /\ pc = "done"
    /\ avg_offset.k = "fin"
    /\ avg_offset.n < -400
    /\ adjust_ms = -40

\* C6: an instant converted to an NTPTimeStamp and back has the same whole
\* second and a sub-second part within one unit of the fraction
\* (2^-32 s = 5^9 / 2^23 ns) of the original.
C6_RoundTrip ==
    (pc = "codec" /\ codec.stage = "roundtrip") =>
        /\ codec.back.secs = codec.utc.secs
        /\ Abs(codec.back.nanos - codec.utc.nanos) * TWO23 <= FIVE9

\* C7: a timestamp converts to the instant seconds - 2_208_988_800 with
\* round(fraction * 1e9 / 2^32) nanoseconds, 10^9 nanoseconds carried into
\* the next second.
C7_RoundedNanoseconds ==
    (pc = "codec" /\ codec.stage = "decoded") =>
        LET p       == FractionTimes1e9Over2p32(codec.ntp.fraction)
            rounded == p.q + (IF 2 * p.r >= TWO23 THEN 1 ELSE 0)
            carry   == IF rounded = NANOS_PER_SEC THEN 1 ELSE 0
            unix    == WSub(codec.ntp.seconds, NTP_TD_UNIX_SECONDS)
        IN  /\ codec.utc.secs = WNorm(unix.hi, unix.lo + carry)
            /\ codec.utc.nanos = rounded - carry * NANOS_PER_SEC

\* C8: every sample's delay is (t4 - t1) - (t3 - t2) in whole milliseconds
\* and its offset is |delay| / 2; for t2 = t3 the delay is the local round
\* trip t4 - t1 in milliseconds and the offset is half of it.
C8_DelayAndOffset ==
    \A k \in 1..Len(times) :
        LET r  == times[k]
            ns == NanosBetween(r.t4, r.t1) - NanosBetween(r.t3, r.t2)
        IN  /\ delay(r) = Trunc(ns, NANOS_PER_MILLI)
            /\ offset(r) = Abs(delay(r)) \div 2
            /\ r.t2 = r.t3 =>
                  /\ delay(r) = Trunc(NanosBetween(r.t4, r.t1), NANOS_PER_MILLI)
                  /\ offset(r) = delay(r) \div 2

\* C8 witness: a sample with t2 = t3 and one with a server processing time
C8_Witness ==
    \E j, k \in 1..Len(times) :
        /\ times[j].t2 = times[j].t3 /\ delay(times[j]) > 0
        /\ times[k].t2 # times[k].t3 /\ delay(times[k]) < 0

\* C9: in one exchange nothing is sent before t1 is taken, what is sent is
\* the 48-byte request with byte 0 = 0b00_011_011 and zeros, the receive
\* has not returned before the send and has returned when t4 is taken, at
\* most the timeout after t1, and t1 <= t4 in every sample.
C9_ExchangeOrder ==
    /\ pc \in {"bind", "connect", "t1", "send"} => request = <<>>
    /\ pc \in {"set_read_timeout", "recv", "t4", "decode"} =>
          /\ request = [i \in 1..NTP_MESSAGE_LENGTH |-> IF i = 1 THEN 27 ELSE 0]
          /\ InstantLe(t1, clock)
    /\ pc \in {"bind", "connect", "t1", "send", "set_read_timeout", "recv"} =>
          Len(recvd) = Len(queried) - 1
    /\ pc \in {"t4", "decode"} => Len(recvd) = Len(queried)
    /\ pc = "decode" =>
          /\ t4 = clock
          /\ InstantLe(t1, t4)
          /\ NanosBetween(t4, t1) <= timeout
    /\ \A k \in 1..Len(times) : InstantLe(times[k].t1, times[k].t4)

\* C9 witness: an exchange whose reply arrived, with t4 later than t1
C9_Witness ==
    /\ pc = "decode"
    /\ recvd[Len(recvd)] = NTP_MESSAGE_LENGTH
    /\ t1 # t4

\* the instant a timeval stands for
TimevalInstant(u) == [secs |-> u.tv_sec, nanos |-> u.tv_usec * 1000]

\* C10 as stated: the correction is in 0..40 ms and the clock is never set
\* to an instant earlier than the time read (the runs without a usable
\* estimate, which C3 is about, left aside).
C10_NeverSetsEarlier ==
    (pc = "done" /\ avg_offset # NaN) =>
        /\ adjust_ms \in 0..40
        /\ InstantLe(now, TimevalInstant(tv))

\* C10 as amended: the aggregate is NaN or not negative, the correction is
\* in 0..40 ms, the instant handed to Clock::set is never earlier than the
\* time read, and the timeval Clock::set writes is that instant cut to whole
\* microseconds: less than a microsecond earlier than the time read at most.
C10_NeverHandsEarlier ==
    /\ Aggregated => (avg_offset = NaN \/ (avg_offset.k = "fin" /\ avg_offset.n >= 0))
    /\ pc \in {"set", "done"} =>
          /\ adjust_ms \in 0..40
          /\ InstantLe(now, set_arg)
    /\ pc = "done" =>
          /\ InstantLe(TimevalInstant(tv), set_arg)
          /\ NanosBetween(set_arg, TimevalInstant(tv)) < 1000
          /\ NanosBetween(now, TimevalInstant(tv)) < 1000

\* C10 witness: a run over a negative delay that ends with a correction
C10_Witness ==
    /\ pc = "done"
    /\ adjust_ms > 0
    /\ \E k \in 1..Len(times) : delay(times[k]) < 0

=============================================================================
